---- MODULE Spec2Model ----
(***************************************************************************)
(* Model of the Homeworks device discovery engine                          *)
(* (src/pyhomeworks/discovery.py, class HomeworksDiscovery) and of the     *)
(* controller connection it borrows.                                       *)
(*                                                                         *)
(* discover_devices is an asyncio coroutine: it runs without interruption  *)
(* from one `await asyncio.sleep(0.1)` to the next.  Every action below is *)
(* one such uninterrupted segment.  The controller invokes the registered  *)
(* callback (_handle_response) while the coroutine is suspended in a sleep *)
(* or has ended; the caller invokes stop_discovery while it is suspended.  *)
(* _generate_addresses and _update_progress are not part of the source     *)
(* file; they are modelled from the specification (sections 4.1, 4.3).     *)
(***************************************************************************)
EXTENDS Naturals, Sequences, FiniteSets

(* ------------------------------ bounds -------------------------------- *)

\* Addresses are numbered 0..MaxAddr in enumeration order.
MaxAddr == 1

\* Payload values carried by a message are 0..MaxState.
MaxState == 0

(* ------------------------- program constants -------------------------- *)

\* `for _ in range(5)`: polls per probe.
PollLimit == 5

\* The three probes made per address (`len(addresses) * 3`).
KindCount == 3

Addr == 0..MaxAddr

\* A bound text that is not in the canonical address format, such as the
\* defaults "1" and "255" of discover_devices.
Malformed == MaxAddr + 1

\* What a caller can pass as start_addr or end_addr.
BoundArgs == Addr \cup {Malformed}

State == 0..MaxState

Kinds == 1..KindCount

\* Message type a probe of kind k waits for.
KindType == <<"DL", "CCOS", "CCIS">>

\* Request operation a probe of kind k calls on the controller.
KindRequest == <<"request_dimmer_level", "request_cco_state", "request_cci_state">>

\* Device type consumed by the config flow for a probe kind that succeeded.
DeviceType == <<"light", "cco", "cci">>

\* Message types _handle_response stores.
Recognised == {"DL", "CCOS", "CCIS"}

\* Message types the controller can deliver; KBP stands for every other type.
MsgTypes == Recognised \cup {"KBP"}

\* The callback object discover_devices registers on the controller.
Handler == "_handle_response"

VARIABLES
    callbacks,            \* controller: the set of registered callbacks
    requests,             \* controller: requests received in this run, in order
    _responses,           \* dict addr -> [type, state]
    _discovered_devices,  \* dict addr -> [device_type]
    _stop_discovery,      \* bool
    _total_addresses,     \* int
    _progress_callback,   \* FALSE: None, TRUE: the caller's callback
    pc,                   \* "idle" | "sleep" | "returned" | "raised"
    has_callback,         \* argument progress_callback is not None
    start_addr,           \* argument
    end_addr,             \* argument
    addresses,            \* local: the list being iterated
    i,                    \* local: index in addresses of the current address
    kind,                 \* which of the three _discover_* calls is running
    poll,                 \* polls already made by the running probe
    ret,                  \* what the caller of discover_devices got
    progress_calls,       \* calls made to the progress callback in this run
    probes,               \* the running probe and the one before it: <<addr, kind>> -> probe state
    answered,             \* a message of the awaited type was delivered for the probed address since its request
    last_run,             \* the call before this one on the same instance: its arguments and result
    validation,           \* the text given to validate_addr and its verdict
    options,              \* config entry options: the dimmers, keypads and switches lists
    entity_registry       \* unique ids <<domain, addr, number>> that have a registry entry

vars == <<callbacks, requests, _responses, _discovered_devices, _stop_discovery,
          _total_addresses, _progress_callback, pc, has_callback, start_addr,
          end_addr, addresses, i, kind, poll, ret, progress_calls, probes,
          answered, last_run, validation, options, entity_registry>>

(* ------------------------------ helpers ------------------------------- *)

\* The empty dict.
EmptyDict == [a \in {} |-> 0]

\* Pop with the clearing step left out.
Pop_Kept(d, a) == d

\* dict.pop(addr, None)
Pop(d, a) == [x \in (DOMAIN d) \ {a} |-> d[x]]

\* dict[addr] = v
Put(d, a, v) == [x \in (DOMAIN d) \cup {a} |-> IF x = a THEN v ELSE d[x]]

\* HandleResponse keeping the entry an address already has.
HandleResponse_KeepsFirst(d, t, a, s) ==
    IF t \in Recognised /\ a \notin DOMAIN d
    THEN Put(d, a, [type |-> t, state |-> s])
    ELSE d

\* HandleResponse without the test of the message type.
HandleResponse_StoresAny(d, t, a, s) == Put(d, a, [type |-> t, state |-> s])

\* _handle_response(msg_type, [addr, state]) applied to the dict
HandleResponse(d, t, a, s) ==
    IF t \in Recognised THEN Put(d, a, [type |-> t, state |-> s]) ELSE d

\* _generate_addresses(start, end): start..end in ascending order, empty
\* when start sorts after end.
GenerateAddresses(s, e) ==
    [n \in 1..(IF s > e THEN 0 ELSE (e - s) + 1) |-> s + (n - 1)]

\* discover_devices has no run in progress.
Exited == pc \in {"idle", "returned", "raised"}

\* The address of the running probe.
addr == addresses[i]

\* Matched with the comparison of the message type left out.
Matched_AnyType(d, a, k) == a \in DOMAIN d

\* The poll's test: `addr in self._responses and self._responses[addr]["type"] == T`
Matched(d, a, k) == a \in DOMAIN d /\ d[a].type = KindType[k]

\* ProbeOutcome for a probe that polls until it is answered.
ProbeOutcome_NoDeadline ==
    IF Matched(_responses, addr, kind) THEN "Observed" ELSE "Requested"

\* State of the running probe after the poll made on waking up.
ProbeOutcome ==
    IF Matched(_responses, addr, kind) THEN "Observed"
    ELSE IF poll + 1 = PollLimit THEN "TimedOut"
    ELSE "Requested"

\* ProbeReturns for a scan that goes on only once the probe was answered.
ProbeReturns_OnlyObserved == ProbeOutcome = "Observed"

\* ProbeReturns for a probe that is started but not awaited.
ProbeReturns_NotAwaited == TRUE

\* The awaited _discover_* coroutine has returned.
ProbeReturns == ProbeOutcome # "Requested"

\* The return values discover_devices can hand to its caller.
\* The call has not ended.
Pending == [value |-> "pending", error |-> "none", catalog |-> EmptyDict]

\* The call fell off the end of the function body.
ReturnNone == [value |-> "None", error |-> "none", catalog |-> EmptyDict]

\* ReturnCatalog handing the caller the correlator table instead of the
\* catalog.
ReturnCatalog_Responses(c) ==
    [value |-> "catalog", error |-> "none",
     catalog |-> [a \in DOMAIN _responses |-> [device_type |-> _responses[a].type]]]

\* `return self._discovered_devices`
ReturnCatalog(c) == [value |-> "catalog", error |-> "none", catalog |-> c]

\* The exception raised by the controller's request_* leaves the call:
\* the caller gets no value.
Raise == [value |-> "nothing", error |-> "exception", catalog |-> EmptyDict]

\* _generate_addresses rejects a bound that is not in the canonical format.
RaiseInvalidAddress ==
    [value |-> "nothing", error |-> "InvalidAddressFormat", catalog |-> EmptyDict]

\* No call has been made on the instance before this one.
NoRun == [called |-> FALSE, cb |-> FALSE, s |-> 0, e |-> 0, ret |-> Pending]

(* ------------------------------- Init --------------------------------- *)

\* No text has been given to validate_addr.
NotValidated == [text |-> <<>>, verdict |-> "unchecked"]

\* A HomeworksDiscovery just constructed on a controller without callbacks.
Constructed ==
    /\ callbacks = {}
    /\ requests = <<>>
    /\ _responses = EmptyDict
    /\ _discovered_devices = EmptyDict
    /\ _stop_discovery = FALSE
    /\ _total_addresses = 0
    /\ _progress_callback = FALSE
    /\ pc = "idle"
    /\ has_callback = FALSE
    /\ start_addr = 0
    /\ end_addr = 0
    /\ addresses = <<>>
    /\ i = 0
    /\ kind = 0
    /\ poll = 0
    /\ ret = Pending
    /\ progress_calls = <<>>
    /\ probes = EmptyDict
    /\ answered = FALSE
    /\ last_run = NoRun

\* `user_input |= {CONF_DIMMERS: [], CONF_KEYPADS: [], CONF_SWITCHES: []}`
NewOptions == [dimmers |-> <<>>, keypads |-> <<>>, switches |-> <<>>]

\* A config entry just created: nothing configured, nothing registered.
EntryCreated ==
    /\ options = NewOptions
    /\ entity_registry = {}

Init ==
    /\ Constructed
    /\ validation = NotValidated
    /\ EntryCreated

(* ----------------------- pieces of the coroutine ----------------------- *)

\* TotalProbes with the factor for the three probe kinds left out.
TotalProbes_AddressesOnly(addrs) == Len(addrs)

\* `len(addresses) * 3`
TotalProbes(addrs) == Len(addrs) * KindCount

\* Lines 28-37 for a call that supplies a progress callback: remember it,
\* clear both dicts, register the handler, build the address list.
Setup(s, e) ==
    /\ _progress_callback' = TRUE
    /\ _discovered_devices' = EmptyDict
    /\ addresses' = GenerateAddresses(s, e)
    /\ _total_addresses' = TotalProbes(GenerateAddresses(s, e))

\* What every call of discover_devices starts with: the arguments are bound
\* and the per-run records of the controller and the caller start empty.
Enter(cb, s, e) ==
    /\ pc = "idle"
    /\ has_callback' = cb
    /\ start_addr' = s
    /\ end_addr' = e
    /\ UNCHANGED <<last_run, validation, options, entity_registry>>

\* _discover_light/_cco/_cci up to the first sleep, the request accepted:
\* pop the address from d, issue the request, start polling.
StartProbe(d, reqs, prb, a, k) ==
    /\ _responses' = Pop(d, a)
    /\ requests' = Append(reqs, <<KindRequest[k], a>>)
    /\ probes' = Put(prb, <<a, k>>, "Requested")
    /\ kind' = k
    /\ poll' = 0
    /\ answered' = FALSE
    /\ pc' = "sleep"
    /\ ret' = Pending

\* The same, the request_* call raising: the exception leaves
\* discover_devices (there is no try/except/finally around the loop).
FailProbe(d, reqs, prb, a, k) ==
    /\ _responses' = Pop(d, a)
    /\ requests' = reqs
    /\ probes' = prb
    /\ kind' = k
    /\ poll' = 0
    /\ answered' = FALSE
    /\ pc' = "raised"
    /\ ret' = Raise

\* _update_progress(): report (probes completed, total probes) to the
\* progress callback.
UpdateProgress ==
    progress_calls' = Append(progress_calls, <<KindCount * i, _total_addresses>>)

\* The recorded probes with the running one in the state its poll gave.
Polled == Put(probes, <<addr, kind>>, ProbeOutcome)

\* The running probe alone, in the state its poll gave.
Finished == [p \in {<<addr, kind>>} |-> ProbeOutcome]

(* ------------------------------ actions ------------------------------- *)

\* discover_devices(progress_callback=None, ...): the whole body is under
\* `if progress_callback is not None`, so the call falls off the end.
CallWithoutCallback(s, e) ==
    /\ Enter(FALSE, s, e)
    /\ pc' = "returned"
    /\ ret' = ReturnNone
    /\ requests' = <<>>
    /\ progress_calls' = <<>>
    /\ probes' = EmptyDict
    /\ answered' = FALSE
    /\ addresses' = <<>>
    /\ i' = 0
    /\ kind' = 0
    /\ poll' = 0
    /\ UNCHANGED <<callbacks, _responses, _discovered_devices, _stop_discovery,
                   _total_addresses, _progress_callback>>

\* discover_devices(cb, s, e) with an empty address list: register, skip the
\* loop, unregister, return the (cleared) catalog.
CallEmptyRange(s, e) ==
    /\ Enter(TRUE, s, e)
    /\ GenerateAddresses(s, e) = <<>>
    /\ Setup(s, e)
    /\ _responses' = EmptyDict
    /\ callbacks' = (callbacks \cup {Handler}) \ {Handler}
    /\ pc' = "returned"
    /\ ret' = ReturnCatalog(EmptyDict)
    /\ requests' = <<>>
    /\ progress_calls' = <<>>
    /\ probes' = EmptyDict
    /\ answered' = FALSE
    /\ i' = 0
    /\ kind' = 0
    /\ poll' = 0
    /\ UNCHANGED _stop_discovery

\* discover_devices(cb, s, e) with a malformed bound: lines 29-34 have run
\* when _generate_addresses (line 36) rejects the bound, and the exception
\* leaves the call past the unregister of line 47.
CallInvalid(s, e) ==
    /\ Enter(TRUE, s, e)
    /\ s = Malformed \/ e = Malformed
    /\ _progress_callback' = TRUE
    /\ _discovered_devices' = EmptyDict
    /\ _responses' = EmptyDict
    /\ callbacks' = callbacks \cup {Handler}
    /\ pc' = "raised"
    /\ ret' = RaiseInvalidAddress
    /\ requests' = <<>>
    /\ progress_calls' = <<>>
    /\ probes' = EmptyDict
    /\ answered' = FALSE
    /\ addresses' = <<>>
    /\ i' = 0
    /\ kind' = 0
    /\ poll' = 0
    /\ UNCHANGED <<_stop_discovery, _total_addresses>>

\* CallAndProbe with the register_callback of line 34 left out.
CallAndProbe_NotRegistered(s, e) ==
    /\ Enter(TRUE, s, e)
    /\ GenerateAddresses(s, e) # <<>>
    /\ Setup(s, e)
    /\ callbacks' = callbacks
    /\ i' = 1
    /\ progress_calls' = <<>>
    /\ StartProbe(EmptyDict, <<>>, EmptyDict, GenerateAddresses(s, e)[1], 1)
    /\ UNCHANGED _stop_discovery

\* discover_devices(cb, s, e) up to the first sleep of the first probe.
CallAndProbe(s, e) ==
    /\ Enter(TRUE, s, e)
    /\ GenerateAddresses(s, e) # <<>>
    /\ Setup(s, e)
    /\ callbacks' = callbacks \cup {Handler}
    /\ i' = 1
    /\ progress_calls' = <<>>
    /\ StartProbe(EmptyDict, <<>>, EmptyDict, GenerateAddresses(s, e)[1], 1)
    /\ UNCHANGED _stop_discovery

\* The same, the first request raising.
CallAndRaise(s, e) ==
    /\ Enter(TRUE, s, e)
    /\ GenerateAddresses(s, e) # <<>>
    /\ Setup(s, e)
    /\ callbacks' = callbacks \cup {Handler}
    /\ i' = 1
    /\ progress_calls' = <<>>
    /\ FailProbe(EmptyDict, <<>>, EmptyDict, GenerateAddresses(s, e)[1], 1)
    /\ UNCHANGED _stop_discovery

\* PollAgain for a probe loop that does not count its polls.
PollAgain_NotCounted ==
    /\ pc = "sleep"
    /\ ~ProbeReturns
    /\ poll' = poll
    /\ UNCHANGED <<callbacks, requests, _responses, _discovered_devices,
                   _stop_discovery, _total_addresses, _progress_callback, pc,
                   has_callback, start_addr, end_addr, last_run, validation, options, entity_registry,
                   addresses, i, kind, ret, progress_calls, probes, answered>>

\* Waking from the sleep, the poll fails and polls remain: sleep again.
PollAgain ==
    /\ pc = "sleep"
    /\ ~ProbeReturns
    /\ poll' = poll + 1
    /\ UNCHANGED <<callbacks, requests, _responses, _discovered_devices,
                   _stop_discovery, _total_addresses, _progress_callback, pc,
                   has_callback, start_addr, end_addr, last_run, validation, options, entity_registry, addresses, i, kind, ret,
                   progress_calls, probes, answered>>

\* NextKind for a loop that checks the cancellation flag between the probe
\* kinds of an address and returns when it is set.
NextKind_ChecksCancel ==
    /\ pc = "sleep"
    /\ ProbeReturns
    /\ kind < KindCount
    /\ IF _stop_discovery
       THEN /\ probes' = Polled
            /\ callbacks' = callbacks \ {Handler}
            /\ pc' = "returned"
            /\ ret' = ReturnCatalog(_discovered_devices)
            /\ UNCHANGED <<requests, _responses, kind, poll, answered>>
       ELSE /\ StartProbe(_responses, requests, Finished, addr, kind + 1)
            /\ UNCHANGED callbacks
    /\ UNCHANGED <<_discovered_devices, _stop_discovery,
                   _total_addresses, _progress_callback, has_callback,
                   start_addr, end_addr, last_run, validation, options, entity_registry, addresses, i, progress_calls>>

\* The probe returns (its value is dropped by discover_devices) and the next
\* _discover_* of the same address runs up to its first sleep.
NextKind ==
    /\ pc = "sleep"
    /\ ProbeReturns
    /\ kind < KindCount
    /\ StartProbe(_responses, requests, Finished, addr, kind + 1)
    /\ UNCHANGED <<callbacks, _discovered_devices, _stop_discovery,
                   _total_addresses, _progress_callback, has_callback,
                   start_addr, end_addr, last_run, validation, options, entity_registry, addresses, i, progress_calls>>

\* The same, the next request raising.
NextKindRaises ==
    /\ pc = "sleep"
    /\ ProbeReturns
    /\ kind < KindCount
    /\ FailProbe(_responses, requests, Finished, addr, kind + 1)
    /\ UNCHANGED <<callbacks, _discovered_devices, _stop_discovery,
                   _total_addresses, _progress_callback, has_callback,
                   start_addr, end_addr, last_run, validation, options, entity_registry, addresses, i, progress_calls>>

\* The third probe of an address returns: report progress, take the next
\* address of the list and run its first probe up to the first sleep.
NextAddress ==
    /\ pc = "sleep"
    /\ ProbeReturns
    /\ kind = KindCount
    /\ i < Len(addresses)
    /\ UpdateProgress
    /\ i' = i + 1
    /\ StartProbe(_responses, requests, Finished, addresses[i + 1], 1)
    /\ UNCHANGED <<callbacks, _discovered_devices, _stop_discovery,
                   _total_addresses, _progress_callback, has_callback,
                   start_addr, end_addr, last_run, validation, options, entity_registry, addresses>>

\* The same, the next request raising.
NextAddressRaises ==
    /\ pc = "sleep"
    /\ ProbeReturns
    /\ kind = KindCount
    /\ i < Len(addresses)
    /\ UpdateProgress
    /\ i' = i + 1
    /\ FailProbe(_responses, requests, Finished, addresses[i + 1], 1)
    /\ UNCHANGED <<callbacks, _discovered_devices, _stop_discovery,
                   _total_addresses, _progress_callback, has_callback,
                   start_addr, end_addr, last_run, validation, options, entity_registry, addresses>>

\* The third probe of the last address returns: report progress, leave the
\* loop, unregister the handler and return self._discovered_devices.
Finish ==
    /\ pc = "sleep"
    /\ ProbeReturns
    /\ kind = KindCount
    /\ i = Len(addresses)
    /\ UpdateProgress
    /\ probes' = Polled
    /\ callbacks' = callbacks \ {Handler}
    /\ pc' = "returned"
    /\ ret' = ReturnCatalog(_discovered_devices)
    /\ UNCHANGED <<requests, _responses, _discovered_devices, _stop_discovery,
                   _total_addresses, _progress_callback, has_callback,
                   start_addr, end_addr, last_run, validation, options, entity_registry, addresses, i, kind, poll, answered>>

\* The controller delivers a message to the registered handler.
Deliver(t, a, s) ==
    /\ Handler \in callbacks
    /\ pc # "idle"
    /\ _responses' = HandleResponse(_responses, t, a, s)
    /\ answered' = (answered \/ (pc = "sleep" /\ a = addr /\ t = KindType[kind]))
    /\ UNCHANGED <<callbacks, requests, _discovered_devices, _stop_discovery,
                   _total_addresses, _progress_callback, pc, has_callback,
                   start_addr, end_addr, last_run, validation, options, entity_registry, addresses, i, kind, poll, ret,
                   progress_calls, probes>>

\* The caller invokes stop_discovery() to cancel the run in progress.
StopDiscovery ==
    /\ pc = "sleep"
    /\ ~_stop_discovery
    /\ _stop_discovery' = TRUE
    /\ UNCHANGED <<callbacks, requests, _responses, _discovered_devices,
                   _total_addresses, _progress_callback, pc, has_callback,
                   start_addr, end_addr, last_run, validation, options, entity_registry, addresses, i, kind, poll, ret,
                   progress_calls, probes, answered>>

Next ==
    \/ \E s \in BoundArgs, e \in BoundArgs : CallWithoutCallback(s, e)
    \/ \E s \in BoundArgs, e \in BoundArgs : CallInvalid(s, e)
    \/ \E s \in Addr, e \in Addr : CallEmptyRange(s, e)
    \/ \E s \in Addr, e \in Addr : CallAndProbe(s, e)
    \/ \E s \in Addr, e \in Addr : CallAndRaise(s, e)
    \/ PollAgain
    \/ NextKind
    \/ NextKindRaises
    \/ NextAddress
    \/ NextAddressRaises
    \/ Finish
    \/ \E t \in MsgTypes, a \in Addr, s \in State : Deliver(t, a, s)
    \/ StopDiscovery

Spec == Init /\ [][Next]_vars

(* ------------------- repeated calls on one instance -------------------- *)

\* The awaiting caller takes what the call gave it; the instance, with the
\* fields the call left in it, is ready for the next discover_devices.
CallerResumes ==
    /\ pc \in {"returned", "raised"}
    /\ last_run' = [called |-> TRUE, cb |-> has_callback, s |-> start_addr,
                    e |-> end_addr, ret |-> ret]
    /\ pc' = "idle"
    /\ has_callback' = FALSE
    /\ start_addr' = 0
    /\ end_addr' = 0
    /\ addresses' = <<>>
    /\ i' = 0
    /\ kind' = 0
    /\ poll' = 0
    /\ ret' = Pending
    /\ requests' = <<>>
    /\ progress_calls' = <<>>
    /\ probes' = EmptyDict
    /\ answered' = FALSE
    /\ UNCHANGED <<callbacks, _responses, _discovered_devices, _stop_discovery,
                   _total_addresses, _progress_callback, validation,
                   options, entity_registry>>

NextRerun ==
    \/ Next
    \/ CallerResumes

SpecRerun == Init /\ [][NextRerun]_vars

(* ------------------- runs on a controller that answers ------------------ *)

\* The event loop wakes the suspended coroutine when its sleep is over.
Resume ==
    \/ PollAgain
    \/ NextKind
    \/ NextAddress
    \/ Finish

\* Calls with well-formed bounds on a controller that accepts every request.
NextLive ==
    \/ \E s \in Addr, e \in Addr : CallWithoutCallback(s, e)
    \/ \E s \in Addr, e \in Addr : CallEmptyRange(s, e)
    \/ \E s \in Addr, e \in Addr : CallAndProbe(s, e)
    \/ Resume
    \/ \E t \in MsgTypes, a \in Addr, s \in State : Deliver(t, a, s)
    \/ StopDiscovery

\* asyncio.sleep(0.1) ends: a suspended coroutine is always resumed.
SpecLive == Init /\ [][NextLive]_vars /\ WF_vars(Resume)

(* ------------------ a second call during a running one ----------------- *)

\* _discovery_lock is created in __init__ and never acquired, so a second
\* discover_devices task on the instance runs while the first is suspended
\* in a sleep.  The fields of the instance and the controller are shared;
\* pc, addresses, i, kind, poll and probes stay those of the first call.
\* The second calls followed here are those that end within one
\* uninterrupted segment.

\* What lines 29-37 of the second call do to the shared fields.
OverlapSetup(s, e) ==
    /\ pc = "sleep"
    /\ _progress_callback' = TRUE
    /\ _discovered_devices' = EmptyDict
    /\ _responses' = EmptyDict
    /\ _total_addresses' = TotalProbes(GenerateAddresses(s, e))
    /\ UNCHANGED <<_stop_discovery, pc, has_callback, start_addr, end_addr,
                   addresses, i, kind, poll, ret, progress_calls, probes,
                   answered, last_run, validation, options, entity_registry>>

\* A second discover_devices(cb, s, e) with an empty address list: it
\* clears, registers, skips the loop, unregisters and returns.
OverlapEmptyRange(s, e) ==
    /\ OverlapSetup(s, e)
    /\ GenerateAddresses(s, e) = <<>>
    /\ callbacks' = (callbacks \cup {Handler}) \ {Handler}
    /\ requests' = requests

\* A second discover_devices(cb, s, e) with addresses to probe, its first
\* request raising: the second call ends there, the handler registered.
OverlapRaises(s, e) ==
    /\ OverlapSetup(s, e)
    /\ GenerateAddresses(s, e) # <<>>
    /\ callbacks' = callbacks \cup {Handler}
    /\ requests' = requests

NextOverlap ==
    \/ Next
    \/ \E s \in Addr, e \in Addr : OverlapEmptyRange(s, e)
    \/ \E s \in Addr, e \in Addr : OverlapRaises(s, e)

SpecOverlap == Init /\ [][NextOverlap]_vars

(* ------------------------ options flow: add/remove --------------------- *)

\* A list of the options holds at most MaxItems items; button numbers are
\* 1..MaxButton.
MaxItems == 2

MaxButton == 2

\* What the options flow steps leave alone.
DiscoveryVars ==
    <<callbacks, requests, _responses, _discovered_devices, _stop_discovery,
      _total_addresses, _progress_callback, pc, has_callback, start_addr,
      end_addr, addresses, i, kind, poll, ret, progress_calls, probes,
      answered, last_run, validation>>

\* The lists of the options, by their key.
ListKeys == {"dimmers", "keypads", "switches"}

\* The lists _validate_address searches: `for _key in (CONF_DIMMERS, CONF_KEYPADS)`.
CheckedKeys == {"dimmers", "keypads"}

\* _validate_address raises SchemaFlowError("duplicated_addr").
DuplicatedAddr(opts, a) ==
    \E key \in CheckedKeys : \E n \in 1..Len(opts[key]) : opts[key][n].addr = a

\* validate_add_light, the address accepted: append to the dimmers.
AddLight(a) ==
    /\ ~DuplicatedAddr(options, a)
    /\ Len(options.dimmers) < MaxItems
    /\ options' = [options EXCEPT !.dimmers = Append(@, [addr |-> a])]
    /\ UNCHANGED <<DiscoveryVars, entity_registry>>

\* validate_add_keypad, the address accepted: append a keypad without buttons.
AddKeypad(a) ==
    /\ ~DuplicatedAddr(options, a)
    /\ Len(options.keypads) < MaxItems
    /\ options' = [options EXCEPT !.keypads = Append(@, [addr |-> a, buttons |-> <<>>])]
    /\ UNCHANGED <<DiscoveryVars, entity_registry>>

\* validate_add_switch, the address accepted: append to the switches.
AddSwitch(a) ==
    /\ ~DuplicatedAddr(options, a)
    /\ Len(options.switches) < MaxItems
    /\ options' = [options EXCEPT !.switches = Append(@, [addr |-> a])]
    /\ UNCHANGED <<DiscoveryVars, entity_registry>>

\* validate_add_button for the keypad at index k, the number not yet used
\* on that keypad.
AddButton(k, n) ==
    /\ k \in 1..Len(options.keypads)
    /\ \A m \in 1..Len(options.keypads[k].buttons) : options.keypads[k].buttons[m] # n
    /\ options' = [options EXCEPT !.keypads[k].buttons = Append(@, n)]
    /\ UNCHANGED <<DiscoveryVars, entity_registry>>

\* The unique ids of the entities of the configured items:
\* calculate_unique_id(controller_id, addr, number) per platform.
EntitiesOf(opts) ==
    {<<"light", opts.dimmers[n].addr, 0>> : n \in 1..Len(opts.dimmers)}
        \cup {<<"switch", opts.switches[n].addr, 0>> : n \in 1..Len(opts.switches)}
        \cup UNION { {<<d, opts.keypads[k].addr, opts.keypads[k].buttons[m]>> :
                          d \in {"binary_sensor", "button"},
                          m \in 1..Len(opts.keypads[k].buttons)} :
                      k \in 1..Len(opts.keypads) }

\* The entry is set up with the current options: every platform adds its
\* entities, which gives each a registry entry.
SetupEntry ==
    /\ entity_registry' = entity_registry \cup EntitiesOf(options)
    /\ UNCHANGED <<DiscoveryVars, options>>

\* The items of l whose index is not in sel, in the order of l, as the
\* loops build `items`, from index k on.
RECURSIVE KeptFrom(_, _, _)
KeptFrom(l, sel, k) ==
    IF k > Len(l) THEN <<>>
    ELSE (IF k \in sel THEN <<>> ELSE <<l[k]>>) \o KeptFrom(l, sel, k + 1)

\* validate_remove_keypad_light(key=key) with the indexes sel selected: the
\* light-domain entry is looked up, and removed, for every item that is
\* kept and, for the dimmers, for every item that is removed too.
RemoveKeypadLight(key, sel) ==
    /\ sel # {}
    /\ sel \subseteq 1..Len(options[key])
    /\ options' = [options EXCEPT ![key] = KeptFrom(@, sel, 1)]
    /\ entity_registry' = entity_registry \
           {<<"light", options[key][n].addr, 0>> :
               n \in {m \in 1..Len(options[key]) : m \notin sel \/ key = "dimmers"}}
    /\ UNCHANGED DiscoveryVars

\* validate_remove_switch with the indexes sel selected: the switch-domain
\* entry is looked up, and removed, for every item of the list.
RemoveSwitch(sel) ==
    /\ sel # {}
    /\ sel \subseteq 1..Len(options.switches)
    /\ options' = [options EXCEPT !.switches = KeptFrom(@, sel, 1)]
    /\ entity_registry' = entity_registry \
           {<<"switch", options.switches[n].addr, 0>> : n \in 1..Len(options.switches)}
    /\ UNCHANGED DiscoveryVars

\* validate_remove_button for the keypad at index k with the indexes sel
\* selected: both entries of every button of the keypad are looked up and
\* removed.
RemoveButton(k, sel) ==
    /\ k \in 1..Len(options.keypads)
    /\ sel # {}
    /\ sel \subseteq 1..Len(options.keypads[k].buttons)
    /\ options' = [options EXCEPT !.keypads[k].buttons = KeptFrom(@, sel, 1)]
    /\ entity_registry' = entity_registry \
           {<<d, options.keypads[k].addr, options.keypads[k].buttons[m]>> :
               d \in {"binary_sensor", "button"},
               m \in 1..Len(options.keypads[k].buttons)}
    /\ UNCHANGED DiscoveryVars

NextOptions ==
    \/ \E a \in Addr : AddLight(a)
    \/ \E a \in Addr : AddKeypad(a)
    \/ \E a \in Addr : AddSwitch(a)
    \/ \E k \in 1..MaxItems, n \in 1..MaxButton : AddButton(k, n)
    \/ SetupEntry
    \/ \E key \in ListKeys, sel \in SUBSET (1..MaxItems) : RemoveKeypadLight(key, sel)
    \/ \E sel \in SUBSET (1..MaxItems) : RemoveSwitch(sel)
    \/ \E k \in 1..MaxItems, sel \in SUBSET (1..MaxButton) : RemoveButton(k, sel)

SpecOptions == Init /\ [][NextOptions]_vars

(* --------------------------- validate_addr ----------------------------- *)

\* Texts are sequences of characters.  The texts given to validate_addr have
\* up to MaxComponents colon-separated components of 1..MaxWidth characters
\* each.
MaxComponents == 6

MaxWidth == 3

\* `{0,2}`: the most optional leading `\d\d:` groups the pattern takes.
OptionalGroups == 2

\* What `\d` matches.
Digits == {"0", "1", "2", "3", "4", "5", "6", "7", "8", "9"}

\* The pattern element `\d`.
D == "\\d"

\* n copies of the sequence p, one after the other.
RECURSIVE Repeat(_, _)
Repeat(p, n) == IF n = 0 THEN <<>> ELSE p \o Repeat(p, n - 1)

\* AddrPattern with a single mandatory component after the optional groups.
AddrPattern_OneMandatory(k) ==
    <<"[">> \o Repeat(<<D, D, ":">>, k) \o <<D, D, "]">>

\* r"\[(?:\d\d:){k}\d\d:\d\d:\d\d\]": the pattern with its optional group
\* taken k times.
AddrPattern(k) ==
    <<"[">> \o Repeat(<<D, D, ":">>, k) \o <<D, D, ":", D, D, ":", D, D, "]">>

\* re.match: the pattern p matches at the start of the text t (what
\* follows the match is not looked at).
Match(p, t) ==
    /\ Len(t) >= Len(p)
    /\ \A j \in 1..Len(p) : IF p[j] = D THEN t[j] \in Digits ELSE t[j] = p[j]

\* validate_addr(t) returns t (TRUE) or raises vol.Invalid (FALSE).
validate_addr(t) == \E k \in 0..OptionalGroups : Match(AddrPattern(k), t)

\* The characters a component of a given text is made of.
ComponentChars == {"0", "9", "x"}

\* What may follow the closing bracket of a given text.
Tails == {<<>>, <<"x">>}

\* The components ws (their widths) written with the character c,
\* separated by colons.
RECURSIVE Joined(_, _)
Joined(ws, c) ==
    IF ws = <<>> THEN <<>>
    ELSE Repeat(<<c>>, Head(ws))
             \o (IF Len(ws) > 1 THEN <<":">> ELSE <<>>)
             \o Joined(Tail(ws), c)

\* The texts given to validate_addr.
Texts ==
    { <<"[">> \o Joined(ws, c) \o <<"]">> \o tl :
        ws \in UNION { [1..n -> 1..MaxWidth] : n \in 0..MaxComponents },
        c \in ComponentChars, tl \in Tails }

InitValidate ==
    /\ Constructed
    /\ EntryCreated
    /\ validation \in { [text |-> t, verdict |-> "unchecked"] : t \in Texts }

\* validate_addr(text): accept the text or raise vol.Invalid.
ValidateAddr ==
    /\ validation.verdict = "unchecked"
    /\ validation' = [validation EXCEPT !.verdict =
                          IF validate_addr(validation.text) THEN "accepted" ELSE "rejected"]
    /\ UNCHANGED <<callbacks, requests, _responses, _discovered_devices,
                   _stop_discovery, _total_addresses, _progress_callback, pc,
                   has_callback, start_addr, end_addr, addresses, i, kind, poll,
                   ret, progress_calls, probes, answered, last_run, options,
                   entity_registry>>

NextValidate == ValidateAddr

SpecValidate == InitValidate /\ [][NextValidate]_vars

(* --------------------- definitions used by the claims ------------------ *)

\* The requests a full scan of addrs makes: per address, in list order, the
\* dimmer-level, CCO-state and CCI-state request.
ExpectedRequests(addrs) ==
    [n \in 1..(Len(addrs) * KindCount) |->
        <<KindRequest[((n - 1) % KindCount) + 1], addrs[((n - 1) \div KindCount) + 1]>>]

IsPrefix(s, u) == Len(s) <= Len(u) /\ \A n \in 1..Len(s) : s[n] = u[n]

\* The call has ended, by return or by exception.
Ended == pc \in {"returned", "raised"}

\* This step ends the probe of kind k at address a as Observed.
NewlyObserved(a, k) ==
    /\ <<a, k>> \in DOMAIN probes'
    /\ probes'[<<a, k>>] = "Observed"
    /\ ~(<<a, k>> \in DOMAIN probes /\ probes[<<a, k>>] = "Observed")

\* The catalog c has an entry keyed a of the device type kind k stands for.
HasDevice(c, a, k) == a \in DOMAIN c /\ c[a].device_type = DeviceType[k]

\* The recorded probes in state st.
InState(st) == {p \in DOMAIN probes : probes[p] = st}

(* -------------------------------- claims ------------------------------- *)

\* C1: every probe that saw a message of its awaited type at one of its
\* polls has, in the catalog discover_devices returns, an entry keyed by its
\* address with the device type of its kind.
C1_ObservedProbeInCatalog ==
    (pc = "returned" /\ ret.value = "catalog") =>
        \A p \in InState("Observed") : HasDevice(ret.catalog, p[1], p[2])

\* C2: a probe during which a message of the awaited type was delivered for
\* its address (after its request, before its last poll) ends as Observed,
\* whatever else was delivered for that address meanwhile.
C2_DeliveredResponseObserved ==
    [][(pc = "sleep" /\ answered /\ (pc' # "sleep" \/ kind' # kind \/ i' # i))
            => ProbeOutcome = "Observed"]_vars

\* C3: once a discover_devices call that registered _handle_response has
\* ended, by return or by exception, _handle_response is not registered.
C3_HandlerUnregisteredOnExit ==
    (Ended /\ has_callback) => Handler \notin callbacks

\* C4: once stop_discovery() has been called during a run, no request is issued
\* for an address after the one in progress, and the run returns a catalog
\* without error.
C4_NoRequestAfterStop ==
    [][(pc = "sleep" /\ _stop_discovery) =>
            /\ (requests' # requests => i' = i)
            /\ (pc' = "returned" => ret'.value = "catalog" /\ ret'.error = "none")]_vars

\* C5: when a request_* call raises during a probe, the caller gets an error
\* together with the catalog of the devices discovered before the failure.
C5_ErrorWithPartialCatalog ==
    pc = "raised" =>
        /\ ret.error # "none"
        /\ ret.value = "catalog"
        /\ ret.catalog = _discovered_devices

\* C6: a call without progress callback still probes every address of the
\* range and returns a catalog, the handler unregistered.
C6_ScanWithoutProgressCallback ==
    (pc = "returned" /\ ~has_callback) =>
        /\ ret.value = "catalog"
        /\ requests = ExpectedRequests(GenerateAddresses(start_addr, end_addr))
        /\ Handler \notin callbacks

\* C7: a probe of kind k at address a ends as Observed only on a poll that
\* finds an entry for a itself whose type is the type k waits for: an entry
\* of another type, or an entry for another address alone, never satisfies it.
C7_SatisfiedOnlyByOwnTypeAndAddress ==
    [][\A a \in Addr, k \in Kinds :
            NewlyObserved(a, k) =>
                /\ a \in DOMAIN _responses
                /\ _responses[a].type = KindType[k]]_vars

\* A Dimmer probe was satisfied at an address, and during the CCO probe that
\* follows a DL entry stands at that address while only the other address
\* holds a CCOS entry; the CCO probe is still unsatisfied after four polls.
C7_Witness ==
    /\ pc = "sleep"
    /\ kind = 2
    /\ poll = PollLimit - 1
    /\ <<addr, 1>> \in InState("Observed")
    /\ addr \in DOMAIN _responses
    /\ _responses[addr].type = "DL"
    /\ \E b \in DOMAIN _responses : b # addr /\ _responses[b].type = "CCOS"

\* C8: at the moment a request is issued the correlator has no entry for the
\* requested address, and a probe ends as Observed only if a message of its
\* awaited type was delivered for its address after its request.
C8_NoStaleEntrySatisfiesProbe ==
    [][/\ (requests' # requests /\ requests' # <<>>) =>
              requests'[Len(requests')][2] \notin DOMAIN _responses'
       /\ \A a \in Addr, k \in Kinds : NewlyObserved(a, k) => answered]_vars

\* The probe before the running one was satisfied at the same address, so an
\* entry stood at that address when the running probe was entered; its
\* request has been issued and the address has no entry.
C8_Witness ==
    /\ pc = "sleep"
    /\ poll = 0
    /\ kind > 1
    /\ <<addr, kind - 1>> \in InState("Observed")
    /\ addr \notin DOMAIN _responses
    /\ ~answered

\* C9: the requests of a run are issued address by address in list order,
\* each address getting the dimmer-level, CCO-state and CCI-state request in
\* that order, and a run that returns has issued exactly these three requests
\* to every address of the range.
C9_EveryAddressThreeRequestsInOrder ==
    /\ IsPrefix(requests, ExpectedRequests(GenerateAddresses(start_addr, end_addr)))
    /\ pc = "returned" =>
           requests = ExpectedRequests(GenerateAddresses(start_addr, end_addr))

\* C10: at most one probe is in its Requested state at any time, and it is
\* the probe of the request issued last.
C10_OneOutstandingProbe ==
    /\ Cardinality(InState("Requested")) <= 1
    /\ \A p \in InState("Requested") :
           /\ pc = "sleep"
           /\ requests # <<>>
           /\ requests[Len(requests)] = <<KindRequest[p[2]], p[1]>>

\* A probe is polling while the probe before it has ended.
C10_Witness ==
    /\ Cardinality(InState("Requested")) = 1
    /\ InState("Observed") \cup InState("TimedOut") # {}

\* The first m progress reports of a scan of n addresses: after each address
\* the probes completed so far, and the total of the probes of the scan.
ExpectedProgress(n, m) == [k \in 1..m |-> <<KindCount * k, KindCount * n>>]

RunningFollows(a, k) ==
    IF k < KindCount
    THEN addr = a /\ kind = k + 1
    ELSE kind = 1 /\ i > 1 /\ addresses[i - 1] = a

\* C12: a probe whose polls all fail ends as absent: the poll that times it
\* out lets the run go on (to the next request, or to the return after the
\* last probe) without an error, the catalog has no entry of its kind for its
\* address, and the probe running after it is the next kind of the same
\* address or the first kind of the next address.
C12_TimedOutProbeIsAbsent ==
    /\ (pc = "sleep" /\ ProbeOutcome = "TimedOut") =>
           ENABLED (NextKind \/ NextAddress \/ Finish)
    /\ \A p \in InState("TimedOut") :
           /\ ~HasDevice(_discovered_devices, p[1], p[2])
           /\ pc = "sleep" =>
                  /\ RunningFollows(p[1], p[2])
                  /\ requests[Len(requests)] = <<KindRequest[kind], addr>>
           /\ pc = "returned" => ret.error = "none" /\ ~HasDevice(ret.catalog, p[1], p[2])

\* The CCI probe of the first address timed out, and the dimmer probe of the
\* second address is running.
C12_Witness ==
    /\ pc = "sleep"
    /\ i = 2
    /\ kind = 1
    /\ <<addresses[1], KindCount>> \in InState("TimedOut")

\* This step is a wake-up of the coroutine from a sleep: the running probe polls.
Polls == pc = "sleep" /\ (poll' # poll \/ pc' # pc \/ kind' # kind \/ i' # i)

\* The entry the running probe waits for stands in the correlator.
Seen == addr \in DOMAIN _responses /\ _responses[addr].type = KindType[kind]

\* C13: every probe goes Idle -> Requested -> Observed | TimedOut. Its request
\* is issued once (no request occurs twice in a run) and starts a poll count
\* of its own at 0; the probe is polled at most 5 times; the first poll that
\* sees the awaited type ends it as Observed; a failed poll before the fifth
\* only counts, without a new request; the fifth failed poll ends it as
\* TimedOut; and an ended probe keeps its outcome whatever is delivered later.
C13_ProbeStateMachine ==
    [][/\ pc' = "sleep" => poll' < PollLimit
       /\ requests' # requests =>
              /\ poll' = 0
              /\ probes'[<<addr', kind'>>] = "Requested"
              /\ <<addr', kind'>> \notin DOMAIN probes
       /\ \A m, n \in 1..Len(requests') : requests'[m] = requests'[n] => m = n
       /\ Polls =>
              /\ Seen => probes'[<<addr, kind>>] = "Observed"
              /\ (~Seen /\ poll + 1 < PollLimit) =>
                     /\ poll' = poll + 1
                     /\ requests' = requests
                     /\ probes' = probes
                     /\ pc' = "sleep"
              /\ (~Seen /\ poll + 1 = PollLimit) => probes'[<<addr, kind>>] = "TimedOut"
       /\ \A p \in (DOMAIN probes) \cap (DOMAIN probes') :
              probes[p] \in {"Observed", "TimedOut"} => probes'[p] = probes[p]]_vars

\* A probe has timed out, and the probe after it, four failed polls made, is
\* about to make its fifth.
C13_Witness ==
    /\ pc = "sleep"
    /\ poll = PollLimit - 1
    /\ InState("TimedOut") # {}
    /\ ~Seen

\* C14: with the cancellation flag set while the first or second probe of an
\* address is outstanding, every wake-up of the coroutine either polls that
\* probe again or ends it as Observed or TimedOut and issues the request of
\* the next kind for the same address (unless the controller raises on it);
\* the run does not return between the probe kinds of an address, and the
\* third probe too runs to Observed or TimedOut.
C14_CancelNotCheckedBetweenKinds ==
    [][(Polls /\ _stop_discovery) =>
           \/ /\ pc' = "sleep"
              /\ requests' = requests
              /\ kind' = kind
              /\ i' = i
              /\ probes'[<<addr, kind>>] = "Requested"
           \/ /\ probes'[<<addr, kind>>] \in {"Observed", "TimedOut"}
              /\ kind < KindCount =>
                     \/ pc' = "raised"
                     \/ /\ pc' = "sleep"
                        /\ i' = i
                        /\ kind' = kind + 1
                        /\ requests' = Append(requests, <<KindRequest[kind + 1], addr>>)]_vars

\* The flag is set and the third probe of the address has just been
\* requested, after the second one ended.
C14_Witness ==
    /\ _stop_discovery
    /\ pc = "sleep"
    /\ kind = KindCount
    /\ poll = 0
    /\ <<addr, KindCount - 1>> \in InState("Observed") \cup InState("TimedOut")

\* C17: a run given a start or end bound that is not in the canonical format
\* fails with the invalid-address error, and neither registers the callback
\* on the controller nor issues a request.
C17_MalformedBoundFailsFast ==
    (pc # "idle" /\ (start_addr = Malformed \/ end_addr = Malformed)) =>
        /\ ret.error = "InvalidAddressFormat"
        /\ Handler \notin callbacks
        /\ requests = <<>>

\* C19: a run whose start bound sorts after its end bound issues no request,
\* makes no progress update, and returns an empty catalog without error.
C19_EmptyRangeEmptyCatalog ==
    (pc # "idle" /\ start_addr \in Addr /\ end_addr \in Addr /\ start_addr > end_addr) =>
        /\ requests = <<>>
        /\ progress_calls = <<>>
        /\ ret = ReturnCatalog(EmptyDict)

\* C15: every call of discover_devices on an instance leaves the correlator
\* table and the catalog empty when it starts, whatever the earlier calls
\* on the instance left in them.
C15_TablesClearedAtRunStart ==
    [][(pc = "idle" /\ pc' # "idle") =>
           /\ _responses' = EmptyDict
           /\ _discovered_devices' = EmptyDict]_vars

\* This call and the one before it on the instance were made with the same
\* arguments and both returned.
SameCallAgain ==
    /\ pc = "returned"
    /\ last_run.called
    /\ last_run.ret.value # "nothing"
    /\ last_run.cb = has_callback
    /\ last_run.s = start_addr
    /\ last_run.e = end_addr

\* C16: a call of discover_devices that repeats the call before it on the
\* same instance (same bounds) returns what that call returned, whichever
\* messages the controller delivered during either of them.
C16_SameCallSameCatalog == SameCallAgain => ret = last_run.ret

\* A scan with a progress callback is repeated and a probe of the second
\* scan has been answered.
C16_Witness ==
    /\ SameCallAgain
    /\ has_callback
    /\ InState("Observed") # {}

\* The text t is a bracketed, colon-separated sequence of exactly n two-digit
\* decimal components.
WellFormed(t, n) ==
    /\ Len(t) = (IF n = 0 THEN 2 ELSE 3 * n + 1)
    /\ t[1] = "["
    /\ t[Len(t)] = "]"
    /\ \A j \in 2..(Len(t) - 1) :
           IF (j - 1) % 3 = 0 THEN t[j] = ":" ELSE t[j] \in Digits

\* The text t begins with a well-formed sequence of n components.
BeginsWellFormed(t, n) ==
    \E m \in 2..Len(t) : WellFormed(SubSeq(t, 1, m), n)

OpensAddress(r) == r[1] = KindRequest[1]

\* The addresses probed by the run so far, in the order they were taken up.
ProbedAddresses ==
    [n \in 1..Len(SelectSeq(requests, OpensAddress)) |->
        SelectSeq(requests, OpensAddress)[n][2]]

\* C20: a run with bounds start <= end that has returned has probed exactly
\* the addresses start, start + 1, ..., end, each once, in ascending order.
C20_ProbesStartToEndAscending ==
    (pc = "returned" /\ start_addr \in Addr /\ end_addr \in Addr /\ start_addr <= end_addr) =>
        /\ Len(ProbedAddresses) = (end_addr - start_addr) + 1
        /\ \A n \in 1..Len(ProbedAddresses) : ProbedAddresses[n] = start_addr + (n - 1)

\* The entries of the addresses other than a are the same before and after
\* the step.
OthersKept(a) ==
    \A b \in Addr \ {a} :
        /\ b \in DOMAIN _responses' <=> b \in DOMAIN _responses
        /\ b \in DOMAIN _responses => _responses'[b] = _responses[b]

\* C21: the correlator is a table keyed by address whose entries all come
\* from recognised messages; when _handle_response takes a recognised
\* message for address a, the entry of a becomes the type and state of that
\* message, whatever entry a had and whichever probe is outstanding, and the
\* entries of all other addresses stay as they were.
C21_LatestRecognisedMessagePerAddress ==
    [][/\ \A b \in DOMAIN _responses' : b \in Addr /\ _responses'[b].type \in Recognised
       /\ \A t \in Recognised, a \in Addr, s \in State :
              Deliver(t, a, s) =>
                  /\ a \in DOMAIN _responses'
                  /\ _responses'[a] = [type |-> t, state |-> s]
                  /\ OthersKept(a)]_vars

\* While a probe waits for its own type, the entry of the probed address
\* holds a message of another type.
C21_Witness ==
    /\ pc = "sleep"
    /\ ProbeOutcome = "Requested"
    /\ addr \in DOMAIN _responses
    /\ _responses[addr].type # KindType[kind]

\* C22: when _handle_response takes a message whose type is not DL, CCOS or
\* CCIS, the correlator table and the catalog stay as they were, and so do
\* the recorded probe states and what the outstanding probe's next poll
\* will find.
C22_UnrecognisedMessageIgnored ==
    [][\A t \in MsgTypes \ Recognised, a \in Addr, s \in State :
           Deliver(t, a, s) =>
               /\ _responses' = _responses
               /\ _discovered_devices' = _discovered_devices
               /\ probes' = probes
               /\ pc = "sleep" => ProbeOutcome' = ProbeOutcome]_vars

\* An unrecognised message can be delivered for the probed address while
\* its probe is still waiting and the table holds an entry.
C22_Witness ==
    /\ pc = "sleep"
    /\ ProbeOutcome = "Requested"
    /\ _responses # EmptyDict
    /\ \E t \in MsgTypes \ Recognised, s \in State : ENABLED Deliver(t, addr, s)

\* C23: every request of a run is issued, and every poll of a run is made,
\* with _handle_response registered on the controller; a step unregisters it
\* only if it makes the last poll of the third probe of the last address
\* (or the address list is empty and there is no probe at all).
C23_RegisteredAroundProbes ==
    [][/\ requests' # requests => Handler \in callbacks'
       /\ Polls => Handler \in callbacks
       /\ pc' = "sleep" => Handler \in callbacks'
       /\ (Handler \in callbacks /\ Handler \notin callbacks') =>
              /\ Polls
              /\ ProbeOutcome # "Requested"
              /\ kind = KindCount
              /\ i = Len(addresses)]_vars

\* The last poll of the last probe of a scan of two addresses is about to be
\* made, the handler registered.
C23_Witness ==
    /\ pc = "sleep"
    /\ Handler \in callbacks
    /\ Len(addresses) > 1
    /\ i = Len(addresses)
    /\ kind = KindCount
    /\ poll = PollLimit - 1

\* C24: while a run is suspended between registering and unregistering its
\* callback, nothing but a delivered message changes the correlator, the
\* catalog stays as it is, no request reaches the controller and the
\* callback stays registered: no other call on the instance gets in.
C24_RunsNeverOverlap ==
    [][(pc = "sleep" /\ pc' = "sleep" /\ i' = i /\ kind' = kind /\ poll' = poll) =>
           /\ requests' = requests
           /\ _discovered_devices' = _discovered_devices
           /\ Handler \in callbacks => Handler \in callbacks'
           /\ \/ _responses' = _responses
              \/ \E t \in Recognised, a \in Addr, s \in State :
                     _responses' = HandleResponse(_responses, t, a, s)]_vars

\* C25: on a controller that accepts every request, a run that was given a
\* progress callback and is suspended in a sleep eventually returns,
\* whichever messages are delivered and whenever; until then no probe is
\* given more than PollLimit polls and the loop index stays within the
\* address list.
C25_RunWithCallbackReturns ==
    /\ [](pc = "sleep" => (has_callback /\ poll < PollLimit /\ i \in 1..Len(addresses)))
    /\ [](pc = "sleep" => <>(pc = "returned"))

\* A scan of two addresses has returned with a probe that timed out.
C25_Witness ==
    /\ pc = "returned"
    /\ has_callback
    /\ Len(addresses) > 1
    /\ InState("TimedOut") # {}

\* Some configured item, in whichever list, has the address a.
Configured(opts, a) ==
    \E key \in ListKeys : \E n \in 1..Len(opts[key]) : opts[key][n].addr = a

\* The addresses of all configured items: dimmers, then keypads, then switches.
ConfiguredAddrs ==
    [n \in 1..Len(options.dimmers) |-> options.dimmers[n].addr]
        \o [n \in 1..Len(options.keypads) |-> options.keypads[n].addr]
        \o [n \in 1..Len(options.switches) |-> options.switches[n].addr]

\* C26: no address belongs to more than one configured item across the
\* dimmers, keypads and switches, and no add step accepts an address that
\* some configured item already has.
C26_NoAddressConfiguredTwice ==
    /\ \A m, n \in 1..Len(ConfiguredAddrs) :
           ConfiguredAddrs[m] = ConfiguredAddrs[n] => m = n
    /\ \A a \in Addr :
           Configured(options, a) =>
               ~ENABLED (AddLight(a) \/ AddKeypad(a) \/ AddSwitch(a))

\* l2 is l without the items at the indexes sel, the others in their order.
IsKept(l, sel, l2) ==
    /\ Len(l2) = Cardinality((1..Len(l)) \ sel)
    /\ \A n \in (1..Len(l)) \ sel :
           l2[Cardinality({m \in (1..n) \ sel : TRUE})] = l[n]

\* The registry entries of the item at index n of the list key.
ItemEntities(key, n) ==
    IF key = "dimmers" THEN {<<"light", options.dimmers[n].addr, 0>>}
    ELSE IF key = "switches" THEN {<<"switch", options.switches[n].addr, 0>>}
    ELSE {<<d, options.keypads[n].addr, options.keypads[n].buttons[m]>> :
             d \in {"binary_sensor", "button"},
             m \in 1..Len(options.keypads[n].buttons)}

\* The step leaves the registry entries of the items of list key that are
\* not selected in place.
RetainedStayRegistered(key, sel) ==
    \A n \in (1..Len(options[key])) \ sel :
        (ItemEntities(key, n) \cap entity_registry) \subseteq entity_registry'

\* C27: a remove step deletes from its list exactly the items at the
\* selected indexes, keeps the others in their order, and leaves the
\* registry entries of the items it keeps in place.
C27_RemoveOnlySelected ==
    [][/\ \A key \in ListKeys, sel \in SUBSET (1..MaxItems) :
              RemoveKeypadLight(key, sel) =>
                  /\ IsKept(options[key], sel, options'[key])
                  /\ RetainedStayRegistered(key, sel)
       /\ \A sel \in SUBSET (1..MaxItems) :
              RemoveSwitch(sel) =>
                  /\ IsKept(options.switches, sel, options'.switches)
                  /\ RetainedStayRegistered("switches", sel)
       /\ \A k \in 1..MaxItems, sel \in SUBSET (1..MaxButton) :
              RemoveButton(k, sel) =>
                  /\ IsKept(options.keypads[k].buttons, sel, options'.keypads[k].buttons)
                  /\ \A m \in (1..Len(options.keypads[k].buttons)) \ sel :
                         \A d \in {"binary_sensor", "button"} :
                             <<d, options.keypads[k].addr, options.keypads[k].buttons[m]>>
                                 \in entity_registry
                             => <<d, options.keypads[k].addr, options.keypads[k].buttons[m]>>
                                    \in entity_registry']_vars

====
